---- MODULE Spec2Model ----
(***************************************************************************)
(* Model of the App component of src/src/App.tsx: the form state, the     *)
(* three input handlers, generateReading and the completion of the chat   *)
(* completion call it awaits.                                              *)
(*                                                                         *)
(* A JavaScript string is a sequence of one-character strings, so that    *)
(* String.prototype.trim is computed and not assumed.  Array positions    *)
(* are 1-based here and 0-based in the source.                            *)
(***************************************************************************)
EXTENDS Integers, Sequences, FiniteSets, TLC

\* Number of card-count buttons the model offers (the page offers 10, App.tsx:145).
MaxNumCards == 3

SP == " "

\* JavaScript's undefined, a value different from every string of the model.
Undefined == <<"undefined">>

\* Texts typed into the question textarea (App.tsx:132).
QuestionInputs == {<<>>, <<SP>>, <<SP, "q">>}

\* Texts typed into a card-name input (App.tsx:173).
CardInputs == {<<>>, <<SP>>, <<"a">>, <<"b", SP>>}

\* Values of import.meta.env.VITE_OPENAI_API_KEY (App.tsx:41).
ApiKeys == {Undefined, <<>>, <<"k">>}

\* Values of choices[0]?.message?.content when choices[0] exists (App.tsx:97).
Contents == {Undefined, <<>>, <<SP>>, <<"r">>}

\* What the awaited call can resolve with (App.tsx:81, 97).
Completions == {[choices |-> <<>>]} \cup {[choices |-> <<c>>] : c \in Contents}

QuestionError == "Please enter your question or situation."
CardsError == "Please enter at least one card name."
ApiKeyError == "OpenAI API key not configured. Please add your API key to the environment variables."
ServiceError == "Failed to generate reading. Please check your API key and try again."
Fallback == <<"Unable to generate reading. Please try again.">>

VARIABLES question, numCards, cardNames, reading, isLoading, error, apiKey, inflight

vars == <<question, numCards, cardNames, reading, isLoading, error, apiKey, inflight>>

----------------------------------------------------------------------------
\* JavaScript helpers

IsWhitespace(ch) == ch = SP

RECURSIVE TrimStart(_)
TrimStart(s) ==
  IF s # <<>> /\ IsWhitespace(Head(s)) THEN TrimStart(Tail(s)) ELSE s

RECURSIVE TrimEnd(_)
TrimEnd(s) ==
  IF s # <<>> /\ IsWhitespace(s[Len(s)]) THEN TrimEnd(SubSeq(s, 1, Len(s) - 1)) ELSE s

\* String.prototype.trim
Trim(s) == TrimEnd(TrimStart(s))

\* Truthiness of a string-or-undefined value: !v is true for undefined and ''.
Truthy(v) == v # Undefined /\ v # <<>>

\* a || b
OrElse(a, b) == IF Truthy(a) THEN a ELSE b

\* array[index], undefined out of range
At(array, index) == IF index \in DOMAIN array THEN array[index] ELSE Undefined

----------------------------------------------------------------------------
\* Pure parts of the handlers

BlankCardNames(names, num) == [index \in 1..num |-> <<>>]

\* Array(num).fill('').map((_, index) => cardNames[index] || '')
ResizedCardNames(names, num) == [index \in 1..num |-> OrElse(At(names, index), <<>>)]

AppendedCardName(names, index, name) == Append(names, name)

\* const newCardNames = [...cardNames]; newCardNames[index] = name
ReplacedCardName(names, index, name) == [names EXCEPT ![index] = name]

UntrimmedFilledCards(names) == SelectSeq(names, LAMBDA name : Truthy(name))

FirstFilledCard(names) ==
  IF \E i \in DOMAIN names : Truthy(Trim(names[i]))
    THEN << names[CHOOSE i \in DOMAIN names :
                   /\ Truthy(Trim(names[i]))
                   /\ \A j \in 1..(i - 1) : ~Truthy(Trim(names[j]))] >>
    ELSE <<>>

\* cardNames.filter(name => name.trim())
FilledCards(names) == SelectSeq(names, LAMBDA name : Truthy(Trim(name)))

\* The template literal: the question verbatim, the number of filled cards and
\* one numbered line per filled card, joined in order.
BuildPrompt(q, filledCards) ==
  [question |-> q,
   count |-> Len(filledCards),
   lines |-> [index \in 1..Len(filledCards) |-> <<index, filledCards[index]>>]]

\* The argument of openai.chat.completions.create
CreateRequest(prompt) ==
  [model |-> "gpt-4",
   system |-> "You are an experienced, compassionate tarot reader with deep knowledge of tarot symbolism and interpretation. Provide thoughtful, insightful readings that help people reflect on their situations and find guidance.",
   user |-> prompt,
   max_tokens |-> 2000,
   temperature |-> "0.7"]

NullishReadingText(completion) ==
  IF At(completion.choices, 1) # Undefined THEN At(completion.choices, 1) ELSE Fallback

\* completion.choices[0]?.message?.content || 'Unable to generate reading. ...'
ReadingText(completion) == OrElse(At(completion.choices, 1), Fallback)

ApiKeyUndefined(key) == key = Undefined

\* !apiKey
ApiKeyMissing(key) == ~Truthy(key)

SubmitNeverDisabled == FALSE

\* disabled={isLoading} on the submit button
SubmitDisabled == isLoading

----------------------------------------------------------------------------
\* State machine

TypeOK ==
  /\ question \in QuestionInputs
  /\ numCards \in 1..MaxNumCards
  /\ cardNames \in UNION {[1..n -> CardInputs] : n \in 1..MaxNumCards}
  /\ isLoading \in BOOLEAN
  /\ error \in {"", QuestionError, CardsError, ApiKeyError, ServiceError}
  /\ apiKey \in ApiKeys

Init ==
  /\ question = <<>>
  /\ numCards = 1
  /\ cardNames = << <<>> >>
  /\ reading = <<>>
  /\ isLoading = FALSE
  /\ error = ""
  /\ apiKey \in ApiKeys
  /\ inflight = <<>>

\* onChange of the textarea
SetQuestion(q) ==
  /\ question' = q
  /\ UNCHANGED <<numCards, cardNames, reading, isLoading, error, apiKey, inflight>>

HandleNumCardsChange(num) ==
  /\ numCards' = num
  /\ cardNames' = ResizedCardNames(cardNames, num)
  /\ UNCHANGED <<question, reading, isLoading, error, apiKey, inflight>>

HandleCardNameChange(index, name) ==
  /\ index \in DOMAIN cardNames
  /\ cardNames' = ReplacedCardName(cardNames, index, name)
  /\ UNCHANGED <<question, numCards, reading, isLoading, error, apiKey, inflight>>

\* generateReading up to its await
GenerateReading ==
  /\ ~SubmitDisabled
  /\ IF ~Truthy(Trim(question))
       THEN /\ error' = QuestionError
            /\ UNCHANGED <<isLoading, inflight>>
       ELSE IF Len(FilledCards(cardNames)) = 0
         THEN /\ error' = CardsError
              /\ UNCHANGED <<isLoading, inflight>>
         ELSE IF ApiKeyMissing(apiKey)
           THEN /\ error' = ApiKeyError
                /\ UNCHANGED <<isLoading, inflight>>
           ELSE /\ isLoading' = TRUE
                /\ error' = ""
                /\ inflight' = Append(inflight,
                     CreateRequest(BuildPrompt(question, FilledCards(cardNames))))
  /\ UNCHANGED <<question, numCards, cardNames, reading, apiKey>>

Remove(seq, i) == SubSeq(seq, 1, i - 1) \o SubSeq(seq, i + 1, Len(seq))

\* The awaited call i resolves with completion: the rest of the try block, then finally.
Resolve(i, completion) ==
  /\ i \in DOMAIN inflight
  /\ inflight' = Remove(inflight, i)
  /\ reading' = ReadingText(completion)
  /\ isLoading' = FALSE
  /\ UNCHANGED <<question, numCards, cardNames, error, apiKey>>

RejectWithoutFinally(i) ==
  /\ i \in DOMAIN inflight
  /\ inflight' = Remove(inflight, i)
  /\ error' = ServiceError
  /\ UNCHANGED <<question, numCards, cardNames, reading, isLoading, apiKey>>

\* The awaited call i rejects: the catch block, then finally.
Reject(i) ==
  /\ i \in DOMAIN inflight
  /\ inflight' = Remove(inflight, i)
  /\ error' = ServiceError
  /\ isLoading' = FALSE
  /\ UNCHANGED <<question, numCards, cardNames, reading, apiKey>>

\* Every way the outstanding call can complete.
Complete ==
  \E i \in DOMAIN inflight :
    \/ \E completion \in Completions : Resolve(i, completion)
    \/ Reject(i)

Next ==
  \/ \E q \in QuestionInputs : SetQuestion(q)
  \/ \E num \in 1..MaxNumCards : HandleNumCardsChange(num)
  \/ \E index \in DOMAIN cardNames, name \in CardInputs : HandleCardNameChange(index, name)
  \/ GenerateReading
  \/ Complete

Spec == Init /\ [][Next]_vars

\* Every issued call eventually resolves or rejects.
LiveSpec == Init /\ [][Next]_vars /\ WF_vars(Complete)

----------------------------------------------------------------------------
\* Vocabulary of the properties, stated without the handlers' helpers

\* s is empty once leading and trailing whitespace is removed
Blank(s) == Trim(s) = <<>>

AllCardsBlank == \A i \in DOMAIN cardNames : Blank(cardNames[i])

KeyPresent == apiKey # Undefined /\ apiKey # <<>>

\* The card names a request carries, in the order of its numbered lines
CardsOfRequest(request) ==
  [j \in 1..Len(request.user.lines) |-> request.user.lines[j][2]]

\* sent is exactly the non-blank entries of names, in their order in names
IsNonBlankInOrder(sent, names) ==
  LET kept == {i \in DOMAIN names : ~Blank(names[i])}
  IN /\ Len(sent) = Cardinality(kept)
     /\ \A i \in kept : sent[Cardinality({k \in kept : k < i}) + 1] = names[i]

\* This step issued one request, carrying the non-blank card names in order
IssuesOneRequest ==
  /\ Len(inflight') = Len(inflight) + 1
  /\ SubSeq(inflight', 1, Len(inflight)) = inflight
  /\ IsNonBlankInOrder(CardsOfRequest(inflight'[Len(inflight')]), cardNames)

\* The text a completion carries, if it carries any
HasText(completion) ==
  /\ completion.choices # <<>>
  /\ completion.choices[1] # Undefined
  /\ completion.choices[1] # <<>>

----------------------------------------------------------------------------
\* C1: in every reachable state the card-name sequence has as many entries
\* as the card count.
C1_LengthIsCount == Len(cardNames) = numCards

C1_Witness ==
  /\ numCards = MaxNumCards
  /\ ~Blank(cardNames[numCards])
  /\ reading # <<>>
  /\ error # ""

\* C2: setCardCount(m) on a sequence of length n gives a sequence of length m
\* that keeps the name at every index below min(n, m) and holds empty text at
\* every index from n on.
C2_ResizePreserves ==
  [][\A m \in 1..MaxNumCards :
       HandleNumCardsChange(m) =>
         /\ Len(cardNames') = m
         /\ \A i \in 1..m :
              cardNames'[i] = IF i <= Len(cardNames) THEN cardNames[i] ELSE <<>>]_vars

C2_Witness ==
  /\ numCards = MaxNumCards
  /\ cardNames[1] = <<"b", SP>>
  /\ \A i \in 2..numCards : cardNames[i] = <<>>

\* C3: a submit with a blank question, or with a non-blank question and only
\* blank card names, sets a validation error, issues no request and leaves the
\* loading flag unset.
C3_ValidationRejects ==
  [][(GenerateReading /\ (Blank(question) \/ AllCardsBlank)) =>
       /\ error' \in {QuestionError, CardsError}
       /\ inflight' = inflight
       /\ isLoading' = FALSE]_vars

C3_Witness ==
  /\ error = CardsError
  /\ ~Blank(question)
  /\ AllCardsBlank
  /\ \E i \in DOMAIN cardNames : cardNames[i] = <<SP>>
  /\ KeyPresent
  /\ inflight = <<>>
  /\ ~isLoading

\* C4 as stated: every submit with a non-blank question and at least one
\* non-blank card name issues exactly one request carrying the non-blank card
\* names in their original order.
C4_Original ==
  [][(GenerateReading /\ ~Blank(question) /\ ~AllCardsBlank) => IssuesOneRequest]_vars

\* C4 amended: with the API key configured, a submit with a non-blank question
\* and at least one non-blank card name issues exactly one request carrying the
\* non-blank card names, and only those, in their original order; no other
\* step issues a request.
C4_OneRequestInOrder ==
  [][/\ (GenerateReading /\ ~Blank(question) /\ ~AllCardsBlank /\ KeyPresent)
          => IssuesOneRequest
     /\ Len(inflight') > Len(inflight) => GenerateReading]_vars

C4_Witness ==
  /\ Len(inflight) = 1
  /\ CardsOfRequest(inflight[1]) = << <<"b", SP>>, <<"a">> >>
  /\ cardNames = << <<"b", SP>>, <<SP>>, <<"a">> >>

\* C5: the reading and the error message are never both non-empty.
C5_MutuallyExclusive == ~(reading # <<>> /\ error # "")

\* C6: after a failed network call is processed the error message is set, the
\* loading flag is false and no reading is set.
C6_FailureLeavesNoReading ==
  [][\A i \in DOMAIN inflight :
       Reject(i) => (error' # "" /\ isLoading' = FALSE /\ reading' = <<>>)]_vars

\* C7: after a successful network call is processed the reading is the
\* returned text exactly, or the fixed placeholder when the content is empty
\* or missing, and the loading flag is false.
C7_SuccessStoresText ==
  [][\A i \in DOMAIN inflight, completion \in Completions :
       Resolve(i, completion) =>
         /\ reading' = IF HasText(completion) THEN completion.choices[1] ELSE Fallback
         /\ isLoading' = FALSE]_vars

C7_Witness == reading = <<SP>> /\ ~isLoading /\ inflight = <<>>

\* C8: the loading flag is true exactly when a request is outstanding, at most
\* one request is outstanding, submit is disabled while loading, and the
\* question, card-count and card-name handlers stay enabled while loading.
C8_LoadingIffOutstanding ==
  /\ isLoading <=> inflight # <<>>
  /\ Len(inflight) <= 1
  /\ isLoading =>
       /\ ~ENABLED GenerateReading
       /\ \A q \in QuestionInputs : ENABLED SetQuestion(q)
       /\ \A num \in 1..MaxNumCards : ENABLED HandleNumCardsChange(num)
       /\ \A index \in DOMAIN cardNames, name \in CardInputs :
            ENABLED HandleCardNameChange(index, name)

C8_Witness ==
  /\ isLoading
  /\ Len(inflight) = 1
  /\ inflight[1].user.question # question
  /\ Len(cardNames) # inflight[1].user.count
  /\ AllCardsBlank

\* C9: with the API key absent no request is ever issued and the loading flag
\* never becomes true, and a submit that passes validation sets the
\* configuration error.
C9_NoKeyNoRequest ==
  /\ ~KeyPresent => (inflight = <<>> /\ ~isLoading)
  /\ [][~KeyPresent =>
          /\ inflight' = <<>>
          /\ isLoading' = FALSE
          /\ (GenerateReading /\ ~Blank(question) /\ ~AllCardsBlank)
               => error' = ApiKeyError]_vars

C9_Witness == apiKey = <<>> /\ error = ApiKeyError /\ ~isLoading /\ inflight = <<>>

\* C10: given that every issued call completes, a true loading flag eventually
\* becomes false, and whenever an error is shown the loading flag is false and
\* submit is enabled.
C10_ReturnsToIdle ==
  /\ isLoading ~> ~isLoading
  /\ [](error # "" => (~isLoading /\ ENABLED GenerateReading))

C10_Witness == error = ServiceError /\ ~isLoading /\ inflight = <<>>

====
